---- MODULE Spec2Model ----
(***************************************************************************)
(* A model of the animation, grounding and movement core of bunvivor:      *)
(*   src/src/animation.rs  AnimationIndices, animate_sprites               *)
(*   src/src/controls.rs   the systems of ControlsPlugin                   *)
(*                                                                         *)
(* Several specifications share the module, each leaving the variables of  *)
(* the others unchanged:                                                   *)
(*   SpecAnim         animate_sprites on one animated entity               *)
(*   SpecGround       collision events, check_collided_grounds and         *)
(*                    gravity_control in any interleaving                  *)
(*   SpecForce        calc_force_diff applied to drawn arguments           *)
(*   SpecFrameMove    the frames of the app, for the systems that touch    *)
(*                    the input, the forces and the transforms             *)
(*   SpecFrameGround  the frames of the app, for the systems that touch    *)
(*                    CollidedGrounds and GravityScale                     *)
(*                                                                         *)
(* Time is counted in integer ticks; gravity scales 0.0 and 30.0 are the   *)
(* integers 0 and 30.  Frame indices are usize in the source; the indices  *)
(* drawn here are far from usize::MAX, so no addition wraps.               *)
(***************************************************************************)
EXTENDS Integers, Sequences, FiniteSets, TLC

VARIABLES
    indices,        \* the entity's AnimationIndices component
    timer,          \* the entity's AnimationTimer component
    atlas,          \* sprite.texture_atlas
    calls,          \* history: number of AnimationIndices::next calls so far
    expired,        \* history: number of timer intervals completed so far
    finishedFrames, \* history: number of frames whose tick completed an interval
    multi,          \* history: some tick completed more than one interval
    cg,             \* CollidedGrounds of each tracked body (a Vec<Entity>)
    gs,             \* GravityScale of each tracked body
    events,         \* CollisionEvents written by physics, not yet read
    contact,        \* history: <<body, ground>> contacts started and not stopped
    ran,            \* history: the system that ran last, and what it was given
    forceIn,        \* the arguments of a call of calc_force_diff
    forceOut,       \* its result: <<>> before the call, <<force>> after
    action_state,   \* ActionState<Action> of the player
    move_vec,       \* MoveVector of the player
    vel,            \* Velocity.linvel of the player
    force,          \* ExternalForce.force of the player
    pos,            \* Transform.translation of the player
    cam,            \* Transform.translation of the camera
    stage,          \* the schedule the app is in: PreUpdate, Update or PostUpdate
    done            \* the systems of Update that have run in this frame

animVars   == <<indices, timer, atlas, calls, expired, finishedFrames, multi>>
groundVars == <<cg, gs, events, contact, ran>>
forceVars  == <<forceIn, forceOut>>
moveVars   == <<action_state, move_vec, vel, force, pos, cam>>
schedVars  == <<stage, done>>
vars       == <<indices, timer, atlas, calls, expired, finishedFrames, multi,
                cg, gs, events, contact, ran, forceIn, forceOut,
                action_state, move_vec, vel, force, pos, cam, stage, done>>

----------------------------------------------------------------------------
(* Bounds *)

MaxFirst == 1           \* new(first, ..) is drawn with first in 0..MaxFirst
MaxSpan == 3            \* .. and last in first..first+MaxSpan
MaxExpired == 10        \* frames stop once this many intervals have elapsed
MaxDelta == 5           \* a frame's elapsed time is in 0..MaxDelta
MaxEvents == 2          \* unread collision events
MaxGrounded == 3        \* entries of one CollidedGrounds
MaxV == 3               \* calc_force_diff is drawn components in -MaxV..MaxV
MaxPos == 2             \* physics moves the player while pos.x < MaxPos

----------------------------------------------------------------------------
(* animation.rs: AnimationIndices *)

AnimationMode == {"Cycle", "Bounce", "Once"}
AnimationDir  == {"Forward", "Backward"}

new(first, last, mode) ==
    [first |-> first, last |-> last, mode |-> mode, dir |-> "Forward", cur |-> first]

LEVEL_UP_INDICES   == new(8, 15, "Once")
PLAYER_RUN_INDICES == new(1, 3, "Bounce")
BLUEBERRY_INDICES  == new(12, 13, "Cycle")

next_Once_lt(self) ==
    IF self.cur < self.last THEN [self EXCEPT !.cur = self.cur + 1] ELSE self

next_Once(self) ==
    IF self.cur <= self.last THEN [self EXCEPT !.cur = self.cur + 1] ELSE self

next_Cycle_ge(self) ==
    LET c == self.cur + 1
    IN  [self EXCEPT !.cur = IF c >= self.last THEN self.first ELSE c]

next_Cycle(self) ==
    LET c == self.cur + 1
    IN  [self EXCEPT !.cur = IF c > self.last THEN self.first ELSE c]

next_Bounce(self) ==
    LET c == IF self.dir = "Forward" THEN self.cur + 1 ELSE self.cur - 1
        d == IF c = self.last THEN "Backward"
             ELSE IF c = self.first THEN "Forward"
             ELSE self.dir
    IN  [self EXCEPT !.cur = c, !.dir = d]

\* AnimationIndices::next: the new state; the value returned is its cur
next(self) ==
    CASE self.mode = "Once"   -> next_Once(self)
      [] self.mode = "Cycle"  -> next_Cycle(self)
      [] self.mode = "Bounce" -> next_Bounce(self)

----------------------------------------------------------------------------
(* animation.rs: AnimationTimer and animate_sprites *)

\* sprite.texture_atlas: None, or Some(atlas) with its index
NoAtlas == [some |-> FALSE, index |-> 0]

SomeAtlas(i) == [some |-> TRUE, index |-> i]

\* TimerMode: the timer is built by the code that spawns the entity
TimerModes == {"Repeating", "Once"}

\* the intervals the timer is built with, in ticks
TimerDurations == {2, 3}

NewTimer(duration, mode) ==
    [elapsed |-> 0, duration |-> duration, mode |-> mode, finished |-> FALSE,
     times_finished_this_tick |-> 0]

\* timer.tick(delta): a repeating timer wraps and counts every interval the
\* delta completes; a finished one-shot timer stays finished
Tick(t, delta) ==
    IF t.mode # "Repeating" /\ t.finished
    THEN [t EXCEPT !.times_finished_this_tick = 0]
    ELSE LET e == t.elapsed + delta
         IN  IF e >= t.duration
             THEN IF t.mode = "Repeating"
                  THEN [t EXCEPT !.finished = TRUE,
                                 !.times_finished_this_tick = e \div t.duration,
                                 !.elapsed = e % t.duration]
                  ELSE [t EXCEPT !.finished = TRUE,
                                 !.times_finished_this_tick = 1,
                                 !.elapsed = t.duration]
             ELSE [t EXCEPT !.finished = FALSE,
                            !.times_finished_this_tick = 0,
                            !.elapsed = e]

\* timer.just_finished()
just_finished(t) == t.times_finished_this_tick > 0

\* the number of next() calls animate_sprites makes after a tick
Advances_every_tick(t, a) == IF a.some THEN 1 ELSE 0

Advances(t, a) == IF just_finished(t) /\ a.some THEN 1 ELSE 0

\* one frame of animate_sprites for the entity
animate_sprites(delta) ==
    LET t == Tick(timer, delta)
        n == Advances(t, atlas)
        i == IF n = 1 THEN next(indices) ELSE indices
    IN  /\ expired + t.times_finished_this_tick <= MaxExpired
        /\ timer' = t
        /\ indices' = i
        /\ atlas' = IF n = 1 THEN SomeAtlas(i.cur) ELSE atlas
        /\ calls' = calls + n
        /\ expired' = expired + t.times_finished_this_tick
        /\ finishedFrames' = finishedFrames + (IF just_finished(t) THEN 1 ELSE 0)
        /\ multi' = (multi \/ t.times_finished_this_tick > 1)
        /\ UNCHANGED <<groundVars, forceVars, moveVars, schedVars>>

----------------------------------------------------------------------------
(* controls.rs: check_collided_grounds and gravity_control *)

Player  == "player"                 \* the body with CollidedGrounds and GravityScale
Tracked == {Player}                 \* the entities the collidee query yields
Ground  == {"floor", "ramp"}        \* the entities the ground query yields
Entity  == Tracked \cup Ground

\* the values a body's GravityScale can hold when gravity_control runs: the
\* 0.0 the player is spawned with, the physics default 1.0, and 30.0
GravityScales == {0, 1, 30}

\* CollisionEvent::Started(e1, e2) and CollisionEvent::Stopped(e1, e2)
CollisionEvent ==
    [kind : {"Started", "Stopped"}, entity : Entity, entity1 : Entity]

\* the events physics can write: between a dynamic body and a fixed ground,
\* in either order
PhysicsEvents ==
    {ev \in CollisionEvent :
        \/ ev.entity \in Tracked /\ ev.entity1 \in Ground
        \/ ev.entity \in Ground /\ ev.entity1 \in Tracked}

\* cg.iter().position(|e| *e == other): 0 when absent, else the 1-based index
position(s, other) ==
    IF \E i \in 1..Len(s) : s[i] = other
    THEN CHOOSE i \in 1..Len(s) : s[i] = other /\ \A j \in 1..(i-1) : s[j] # other
    ELSE 0

\* cg.swap_remove(idx): the last element takes the place of the removed one
swap_remove(s, idx) ==
    LET n == Len(s)
    IN  [i \in 1..(n-1) |-> IF i = idx THEN s[n] ELSE s[i]]

\* collidee.iter_mut().find(|(e, _)| e == entity) is Some
FindCollidee(entity) == entity \in Tracked

\* ground.iter().find(|e| e == entity1) is Some
FindGround(entity1) == entity1 \in Ground

\* the body of the loop of check_collided_grounds for one event
HandleEvent(c, ev) ==
    IF FindCollidee(ev.entity) /\ FindGround(ev.entity1)
    THEN IF ev.kind = "Started"
         THEN [c EXCEPT ![ev.entity] = Append(@, ev.entity1)]
         ELSE LET idx == position(c[ev.entity], ev.entity1)
              IN  IF idx # 0
                  THEN [c EXCEPT ![ev.entity] = swap_remove(@, idx)]
                  ELSE c
    ELSE c

RECURSIVE ReadEvents(_, _)
\* for collision_event in collision_events.read() { .. }
ReadEvents(c, evs) ==
    IF evs = <<>> THEN c
    ELSE ReadEvents(HandleEvent(c, Head(evs)), Tail(evs))

\* the contact of a body and a ground an event is about, in either order
ContactOf(ev) ==
    IF ev.entity \in Tracked /\ ev.entity1 \in Ground
    THEN {<<ev.entity, ev.entity1>>}
    ELSE IF ev.entity1 \in Tracked /\ ev.entity \in Ground
    THEN {<<ev.entity1, ev.entity>>}
    ELSE {}

\* the entries check_collided_grounds would hold after reading evs
RECURSIVE PendingLen(_, _, _)
PendingLen(c, evs, b) ==
    IF evs = <<>> THEN Len(c[b])
    ELSE PendingLen(HandleEvent(c, Head(evs)), Tail(evs), b)

\* physics writes one collision event
EmitEvent(ev) ==
    /\ Len(events) < MaxEvents
    /\ \A b \in Tracked : PendingLen(cg, Append(events, ev), b) <= MaxGrounded
    /\ events' = Append(events, ev)
    /\ contact' = IF ev.kind = "Started" THEN contact \cup ContactOf(ev)
                  ELSE contact \ ContactOf(ev)
    /\ ran' = [op |-> "physics", arg |-> <<ev>>, before |-> cg, gsBefore |-> gs]
    /\ UNCHANGED <<cg, gs>>
    /\ UNCHANGED <<animVars, forceVars, moveVars>>

check_collided_grounds ==
    /\ cg' = ReadEvents(cg, events)
    /\ events' = <<>>
    /\ ran' = [op |-> "check_collided_grounds", arg |-> events,
                before |-> cg, gsBefore |-> gs]
    /\ UNCHANGED <<gs, contact>>
    /\ UNCHANGED <<animVars, forceVars, moveVars>>

GravityScaleFor_swapped(c) == IF c = <<>> THEN 0 ELSE 30

\* the value gravity_control writes for a body whose CollidedGrounds is c
GravityScaleFor(c) == IF c = <<>> THEN 30 ELSE 0

gravity_control ==
    /\ gs' = [b \in Tracked |-> GravityScaleFor(cg[b])]
    /\ ran' = [op |-> "gravity_control", arg |-> <<>>,
                before |-> cg, gsBefore |-> gs]
    /\ UNCHANGED <<cg, events, contact>>
    /\ UNCHANGED <<animVars, forceVars, moveVars>>

----------------------------------------------------------------------------
(* controls.rs: calc_force_diff and entities_try_to_move                   *)
(*                                                                         *)
(* Velocities, forces and the move vector are integer vectors, in tenths   *)
(* of a unit where the source has a fraction (MoveSpeed(23.6) is 236).     *)

Vec2(x, y) == [x |-> x, y |-> y]

Vec3(x, y, z) == [x |-> x, y |-> y, z |-> z]

Vec3_ZERO == Vec3(0, 0, 0)

\* v.xz()
xz(v) == Vec2(v.x, v.z)

\* the fixed gain of calc_force_diff
Gain == 300

calc_force_diff_plus(clamped_input, current_velocity, target_velocity) ==
    LET target_speed == Vec2(target_velocity.x * clamped_input,
                             target_velocity.y * clamped_input)
        diff_to_make_up == Vec2(target_speed.x + current_velocity.x,
                                target_speed.y + current_velocity.y)
    IN  Vec2(diff_to_make_up.x * Gain, diff_to_make_up.y * Gain)

\* clamped_input is 0 or 1 here: the ends of the range 0.0-1.0
calc_force_diff(clamped_input, current_velocity, target_velocity) ==
    LET target_speed == Vec2(target_velocity.x * clamped_input,
                             target_velocity.y * clamped_input)
        diff_to_make_up == Vec2(target_speed.x - current_velocity.x,
                                target_speed.y - current_velocity.y)
    IN  Vec2(diff_to_make_up.x * Gain, diff_to_make_up.y * Gain)

\* the arguments calc_force_diff is drawn
ForceArgs ==
    [clamped_input : 0..1,
     current : {Vec2(x, y) : x \in -MaxV..MaxV, y \in -MaxV..MaxV},
     target  : {Vec2(x, y) : x \in -MaxV..MaxV, y \in -MaxV..MaxV}
                  \cup {Vec2(5, 0)}]

\* one call of calc_force_diff
CallCalcForceDiff ==
    /\ forceOut = <<>>
    /\ forceOut' = <<calc_force_diff(forceIn.clamped_input, forceIn.current,
                                     forceIn.target)>>
    /\ UNCHANGED forceIn
    /\ UNCHANGED <<animVars, groundVars, moveVars, schedVars>>

\* the Update systems of ControlsPlugin modelled here (fix_rotation writes
\* only Transform.rotation, which no system here reads)
MoveSystems   == {"control_player", "camera_lock", "entities_try_to_move"}
GroundSystems == {"gravity_control", "check_collided_grounds"}

After_unordered == {}

\* the ordering constraints of add_systems: <<s, p>> when s is .after(p)
After ==
    {<<"camera_lock", "control_player">>,
     <<"entities_try_to_move", "control_player">>}

\* the executor starts a system of Update once every system it is ordered
\* after has run in this frame; every system runs once per frame
RunSystem(s) ==
    /\ stage = "Update"
    /\ s \notin done
    /\ \A o \in After : o[1] = s => o[2] \in done
    /\ done' = done \cup {s}
    /\ UNCHANGED stage

\* what a system of the movement group finds when it starts
Before(op) ==
    [op |-> op, action_state |-> action_state, move_vec |-> move_vec,
     vel |-> vel, force |-> force, pos |-> pos, cam |-> cam]

entities_try_to_move_zero_y ==
    LET new_force == calc_force_diff(1, xz(vel), xz(move_vec))
    IN  /\ force' = Vec3(new_force.x, 0, new_force.y)
        /\ ran' = Before("entities_try_to_move")
        /\ UNCHANGED <<action_state, move_vec, vel, pos, cam>>
        /\ UNCHANGED <<cg, gs, events, contact>>
        /\ UNCHANGED <<animVars, forceVars>>

entities_try_to_move ==
    LET new_force == calc_force_diff(1, xz(vel), xz(move_vec))
    IN  /\ force' = Vec3(new_force.x, force.y, new_force.y)
        /\ ran' = Before("entities_try_to_move")
        /\ UNCHANGED <<action_state, move_vec, vel, pos, cam>>
        /\ UNCHANGED <<cg, gs, events, contact>>
        /\ UNCHANGED <<animVars, forceVars>>

----------------------------------------------------------------------------
(* controls.rs: control_player                                             *)
(*                                                                         *)
(* Unit vectors are in hundredths (UnitScale), rounded to the nearest.     *)

Action == {"Left", "Right", "Up", "Down"}

\* action_state.pressed(a)
pressed(as, a) == as[a] \in {"JustPressed", "Pressed"}

\* action_state.released(a): the button is not pressed, whether it was
\* released in this frame or earlier
released(as, a) == as[a] \in {"JustReleased", "Released"}

\* the input manager's update of PreUpdate, the keys in keys being down
UpdateActionState(as, keys) ==
    [a \in Action |->
        IF a \in keys
        THEN IF pressed(as, a) THEN "Pressed" ELSE "JustPressed"
        ELSE IF pressed(as, a) THEN "JustReleased" ELSE "Released"]

UnitScale == 100

\* MoveSpeed(23.6), in tenths
PlayerMoveSpeed == 236

\* n / d rounded to the nearest integer, halves away from zero
RoundDiv(n, d) ==
    IF n >= 0 THEN (2 * n + d) \div (2 * d) ELSE -((2 * (-n) + d) \div (2 * d))

RECURSIVE ISqrtIn(_, _, _)
\* the largest r in lo..hi with r * r <= n
ISqrtIn(lo, hi, n) ==
    IF lo >= hi THEN lo
    ELSE LET mid == (lo + hi + 1) \div 2
         IN  IF mid * mid <= n THEN ISqrtIn(mid, hi, n) ELSE ISqrtIn(lo, mid - 1, n)

\* v.length(), rounded down
length(v) == ISqrtIn(0, 2000, v.x * v.x + v.y * v.y + v.z * v.z)

Add(v, w) == Vec3(v.x + w.x, v.y + w.y, v.z + w.z)

Sub(v, w) == Vec3(v.x - w.x, v.y - w.y, v.z - w.z)

\* v.normalize(): a vector of length UnitScale
normalize(v) ==
    LET l == length(v)
    IN  Vec3(RoundDiv(v.x * UnitScale, l), RoundDiv(v.y * UnitScale, l),
             RoundDiv(v.z * UnitScale, l))

\* v.normalize_or(Vec3::ZERO)
normalize_or_zero(v) == IF length(v) = 0 THEN Vec3_ZERO ELSE normalize(v)

\* forward.cross(Vec3::Y)
cross_Y(v) == Vec3(-v.z, 0, v.x)

\* a unit vector times a speed
Scaled(u, speed) ==
    Vec3(RoundDiv(u.x * speed, UnitScale), RoundDiv(u.y * speed, UnitScale),
         RoundDiv(u.z * speed, UnitScale))

\* the horizontal unit vector from the camera to the player
Forward(player, camera) ==
    normalize(Vec3(player.x - camera.x, 0, player.z - camera.z))

\* "handle pressing buttons": the contributions of the actions pressed
PressedSum(as, forward, right) ==
    LET l == IF pressed(as, "Left")  THEN Sub(Vec3_ZERO, right) ELSE Vec3_ZERO
        r == IF pressed(as, "Right") THEN Add(l, right) ELSE l
        d == IF pressed(as, "Down")  THEN Sub(r, forward) ELSE r
        u == IF pressed(as, "Up")    THEN Add(d, forward) ELSE d
    IN  u

ReleasedSum_no_right(v, as, forward, right) ==
    LET l == IF released(as, "Left")  THEN Add(v, right) ELSE v
        d == IF released(as, "Down")  THEN Add(l, forward) ELSE l
        u == IF released(as, "Up")    THEN Sub(d, forward) ELSE d
    IN  u

\* "handle releasing the buttons": v with the inverse contributions of the
\* actions released
ReleasedSum(v, as, forward, right) ==
    LET l == IF released(as, "Left")  THEN Add(v, right) ELSE v
        r == IF released(as, "Right") THEN Sub(l, right) ELSE l
        d == IF released(as, "Down")  THEN Add(r, forward) ELSE r
        u == IF released(as, "Up")    THEN Sub(d, forward) ELSE d
    IN  u

\* the value control_player leaves in the MoveVector
ControlledMove(as, player, camera, move_speed) ==
    LET forward == Forward(player, camera)
        right   == cross_Y(forward)
        sum     == ReleasedSum(PressedSum(as, forward, right), as, forward, right)
    IN  Scaled(normalize_or_zero(sum), move_speed)

control_player ==
    /\ move_vec' = ControlledMove(action_state, pos, cam, PlayerMoveSpeed)
    /\ ran' = Before("control_player")
    /\ UNCHANGED <<action_state, vel, force, pos, cam>>
    /\ UNCHANGED <<cg, gs, events, contact>>
    /\ UNCHANGED <<animVars, forceVars>>

----------------------------------------------------------------------------
(* controls.rs: camera_lock; lib.rs: the plugins around Update             *)

\* CameraDistance(120.), in tenths
PlayerCameraDistance == 1200

\* sin and cos of CAMERA_ANGLE (30 degrees), in thousandths
SinCameraAngle == 500
CosCameraAngle == 866

\* Vec3::new(x, y, x) of camera_lock
CameraOffset(dist) ==
    LET x == (dist * SinCameraAngle) \div 1000
        y == (dist * CosCameraAngle) \div 1000
    IN  Vec3(x, y, x)

\* looking_at turns the camera and leaves its translation
camera_lock ==
    /\ cam' = Add(pos, CameraOffset(PlayerCameraDistance))
    /\ ran' = Before("camera_lock")
    /\ UNCHANGED <<action_state, move_vec, vel, force, pos>>
    /\ UNCHANGED <<cg, gs, events, contact>>
    /\ UNCHANGED <<animVars, forceVars>>

\* InputManagerPlugin, in PreUpdate: the ActionState follows the keys
update_action_state(keys) ==
    /\ stage = "PreUpdate"
    /\ action_state' = UpdateActionState(action_state, keys)
    /\ stage' = "Update"
    /\ done' = {}
    /\ ran' = Before("update_action_state")
    /\ UNCHANGED <<move_vec, vel, force, pos, cam>>
    /\ UNCHANGED <<cg, gs, events, contact>>
    /\ UNCHANGED <<animVars, forceVars>>

\* the displacements of the player in one physics step
Displacements == {Vec3_ZERO, Vec3(1, 0, 0)}

\* RapierPhysicsPlugin with its default schedule, PostUpdate: the step runs
\* when Update is over, moves the dynamic body and leaves it at rest or at
\* the velocity it was driven to
physics_step_move ==
    /\ stage = "Update"
    /\ done = MoveSystems
    /\ \E d \in Displacements :
          /\ d # Vec3_ZERO => pos.x < MaxPos
          /\ pos' = Add(pos, d)
    /\ vel' \in {Vec3_ZERO, Vec3(move_vec.x, vel.y, move_vec.z)}
    /\ stage' = "PreUpdate"
    /\ ran' = Before("physics_step")
    /\ UNCHANGED <<action_state, move_vec, force, cam, done>>
    /\ UNCHANGED <<cg, gs, events, contact>>
    /\ UNCHANGED <<animVars, forceVars>>

\* the schedules before Update, for the systems that read no input
begin_frame ==
    /\ stage = "PreUpdate"
    /\ stage' = "Update"
    /\ done' = {}
    /\ UNCHANGED <<animVars, groundVars, forceVars, moveVars>>

\* the physics step of PostUpdate writes one collision event
physics_step_event(ev) ==
    /\ stage = "Update"
    /\ done = GroundSystems
    /\ EmitEvent(ev)
    /\ UNCHANGED schedVars

\* the frame is over
end_frame ==
    /\ stage = "Update"
    /\ done = GroundSystems
    /\ stage' = "PreUpdate"
    /\ UNCHANGED done
    /\ UNCHANGED <<animVars, groundVars, forceVars, moveVars>>

----------------------------------------------------------------------------
(* Specifications *)

InitAnim ==
    /\ indices \in {new(f, f + s, m) : f \in 0..MaxFirst, s \in 0..MaxSpan,
                                      m \in AnimationMode}
                   \cup {LEVEL_UP_INDICES, PLAYER_RUN_INDICES, BLUEBERRY_INDICES}
    /\ timer \in {NewTimer(d, m) : d \in TimerDurations, m \in TimerModes}
    /\ atlas \in {NoAtlas, SomeAtlas(indices.first)}
    /\ calls = 0
    /\ expired = 0
    /\ finishedFrames = 0
    /\ multi = FALSE

InitGround ==
    /\ cg = [b \in Tracked |-> <<>>]
    /\ gs \in [Tracked -> GravityScales]
    /\ events = <<>>
    /\ contact = {}
    /\ ran = [op |-> "setup", arg |-> <<>>, before |-> cg, gsBefore |-> gs]

Init == InitAnim /\ InitGround

\* no call of calc_force_diff is in progress
InitForceIdle ==
    /\ forceIn = [clamped_input |-> 1, current |-> Vec2(0, 0), target |-> Vec2(0, 0)]
    /\ forceOut = <<>>

\* the vertical forces an ExternalForce can hold: the 0.0 it is spawned
\* with, or a value set through the inspector
ForceYs == {0, 7}

\* the player and the camera as setup spawns them, lengths in tenths
InitMoveWith(forceYs) ==
    /\ action_state = [a \in Action |-> "Released"]
    /\ move_vec = Vec3_ZERO
    /\ vel = Vec3_ZERO
    /\ force \in {Vec3(0, y, 0) : y \in forceYs}
    /\ pos = Vec3(0, 21, 0)
    /\ cam = Vec3(0, 70, 140)

InitMove == InitMoveWith({0})

\* the app before its first frame
InitSched ==
    /\ stage = "PreUpdate"
    /\ done = {}

\* the other systems' state, for a specification that leaves it alone
InitIdle ==
    /\ indices = PLAYER_RUN_INDICES
    /\ timer = NewTimer(2, "Repeating")
    /\ atlas = NoAtlas
    /\ gs = [b \in Tracked |-> 0]

NextAnim == \E delta \in 0..MaxDelta : animate_sprites(delta)

NextGround ==
    \/ \E ev \in PhysicsEvents : EmitEvent(ev) /\ UNCHANGED schedVars
    \/ check_collided_grounds /\ UNCHANGED schedVars
    \/ gravity_control /\ UNCHANGED schedVars

\* the animation system alone: the player is spawned with GravityScale(0.0)
InitAnimOnly ==
    /\ Init
    /\ gs = [b \in Tracked |-> 0]
    /\ InitForceIdle /\ InitMove /\ InitSched

SpecAnim == InitAnimOnly /\ [][NextAnim]_vars

\* the grounding systems alone: the animated entity is the player's sprite
InitGroundOnly ==
    /\ Init
    /\ indices = PLAYER_RUN_INDICES
    /\ timer = NewTimer(2, "Repeating")
    /\ atlas = NoAtlas
    /\ InitForceIdle /\ InitMove /\ InitSched

SpecGround == InitGroundOnly /\ [][NextGround]_vars

----------------------------------------------------------------------------
(* calc_force_diff alone *)

InitForce ==
    /\ Init /\ InitIdle /\ InitMove /\ InitSched
    /\ forceIn \in ForceArgs
    /\ forceOut = <<>>

NextForce == CallCalcForceDiff

SpecForce == InitForce /\ [][NextForce]_vars

----------------------------------------------------------------------------
(* the frames of the app *)

InitFrameMove ==
    /\ Init /\ InitIdle /\ InitForceIdle /\ InitSched
    /\ InitMoveWith(ForceYs)

NextFrameMove ==
    \/ \E keys \in SUBSET Action : update_action_state(keys)
    \/ RunSystem("control_player") /\ control_player
    \/ RunSystem("camera_lock") /\ camera_lock
    \/ RunSystem("entities_try_to_move") /\ entities_try_to_move
    \/ physics_step_move

SpecFrameMove == InitFrameMove /\ [][NextFrameMove]_vars

InitFrameGround ==
    /\ Init /\ InitIdle /\ InitForceIdle /\ InitSched /\ InitMove

NextFrameGround ==
    \/ begin_frame
    \/ RunSystem("check_collided_grounds") /\ check_collided_grounds
    \/ RunSystem("gravity_control") /\ gravity_control
    \/ \E ev \in PhysicsEvents : physics_step_event(ev)
    \/ end_frame

SpecFrameGround == InitFrameGround /\ [][NextFrameGround]_vars

----------------------------------------------------------------------------
(* Properties of AnimationIndices and animate_sprites, under SpecAnim *)

Span == indices.last - indices.first

\* C1: with first <= last, after any number of next() calls
\* first <= cur <= last in modes Cycle and Bounce, and
\* first <= cur <= last + 1 in mode Once.
C1_CurInRange ==
    /\ indices.first <= indices.cur
    /\ indices.mode \in {"Cycle", "Bounce"} => indices.cur <= indices.last
    /\ indices.mode = "Once" => indices.cur <= indices.last + 1

\* the frame a ping-pong over first..last shows after n advances
BounceFrame(n) ==
    IF Span = 0 THEN indices.first
    ELSE LET k == n % (2 * Span)
         IN  IF k <= Span THEN indices.first + k ELSE indices.first + (2 * Span - k)

\* its direction after n advances: Backward from the touch of last until
\* the touch of first
BounceDir(n) ==
    IF Span = 0 THEN indices.dir
    ELSE IF n % (2 * Span) < Span THEN "Forward" ELSE "Backward"

\* C3: for all (first, last), a Bounce state started at first yields
\* first+1, .., last, last-1, .., first, first+1, .. indefinitely, each
\* endpoint once per pass, with the direction Backward exactly from the
\* call that reaches last and Forward exactly from the call that reaches first.
C3_BouncePalindrome ==
    indices.mode = "Bounce" =>
        /\ indices.cur = BounceFrame(calls)
        /\ indices.dir = BounceDir(calls)

\* C4: a Once state increments by 1 while cur <= last and is unchanged by
\* next() once cur = last + 1; for first = 8, last = 15 cur is 15 after 7
\* calls and 16 after the 8th and every later call.
C4_OncePlaysThenHolds ==
    indices.mode = "Once" =>
        /\ indices.cur = IF calls <= Span + 1 THEN indices.first + calls
                         ELSE indices.last + 1
        /\ (indices.first = 8 /\ indices.last = 15) =>
              /\ calls = 7 => indices.cur = 15
              /\ calls >= 8 => indices.cur = 16
        /\ indices.cur = indices.last + 1 => next(indices) = indices

C4_Witness ==
    /\ indices.mode = "Once"
    /\ indices.first = 8 /\ indices.last = 15
    /\ calls = 10
    /\ indices.cur = 16
    /\ atlas = SomeAtlas(16)

\* C5: for first < last a Cycle state started at first visits
\* first, first+1, .., last, first, .. with period exactly last-first+1:
\* cur is back at first after last-first+1 calls and after no smaller
\* positive number of calls.
C5_CyclePeriod ==
    (indices.mode = "Cycle" /\ indices.first < indices.last) =>
        /\ indices.cur = indices.first + (calls % (Span + 1))
        /\ indices.cur = indices.first <=> calls % (Span + 1) = 0

C5_Witness ==
    /\ indices.mode = "Cycle"
    /\ indices.first < indices.last
    /\ calls = 2 * (Span + 1)
    /\ indices.cur = indices.first

\* C6: for an entity with a texture atlas and a repeating timer, over any
\* sequence of frames the number of next() calls equals the number of timer
\* intervals that have elapsed.
C6_OnceCallPerInterval ==
    (atlas.some /\ timer.mode = "Repeating") => calls = expired

\* C6, amended: for an entity with a texture atlas and a repeating timer,
\* next() is called exactly once on each frame whose tick completes at least
\* one interval and on no other frame; the calls are at most the intervals
\* elapsed, and equal them as long as no single tick has completed more than
\* one interval.
C6_OnceCallPerFinishedFrame ==
    (atlas.some /\ timer.mode = "Repeating") =>
        /\ calls = finishedFrames
        /\ calls <= expired
        /\ ~multi => calls = expired
        /\ atlas.index = indices.cur

C6_Witness ==
    /\ atlas.some
    /\ timer.mode = "Repeating"
    /\ multi
    /\ calls = 2
    /\ expired = 5
    /\ timer.times_finished_this_tick = 0

----------------------------------------------------------------------------
(* Properties of check_collided_grounds and gravity_control, under         *)
(* SpecGround                                                              *)

\* C2: after any sequence of collision events processed by
\* check_collided_grounds no ground entity appears more than once in any
\* body's CollidedGrounds.
C2_NoDuplicateGround ==
    \A b \in Tracked : \A i, j \in 1..Len(cg[b]) :
        i # j => cg[b][i] # cg[b][j]

\* C7: once the events are processed, a body's CollidedGrounds is non-empty
\* if and only if some ground has a started contact with the body that has
\* not been stopped.
C7_GroundedIffContact ==
    (ran.op = "check_collided_grounds" /\ events = <<>>) =>
        \A b \in Tracked :
            cg[b] # <<>> <=> \E g \in Ground : <<b, g>> \in contact

\* C8: from an empty set a collision-start between the body and ground G
\* makes the set exactly <<G>>; from <<G>> a collision-stop with G makes it
\* empty; a collision-stop for a ground not in the set leaves it unchanged.
C8_StartThenStop ==
    (ran.op = "check_collided_grounds" /\ Len(ran.arg) = 1) =>
        LET ev == ran.arg[1]
        IN  \A b \in Tracked : \A g \in Ground :
                ContactOf(ev) = {<<b, g>>} =>
                    /\ (ev.kind = "Started" /\ ran.before[b] = <<>>)
                          => cg[b] = <<g>>
                    /\ (ev.kind = "Stopped" /\ ran.before[b] = <<g>>)
                          => cg[b] = <<>>
                    /\ (ev.kind = "Stopped" /\ position(ran.before[b], g) = 0)
                          => cg[b] = ran.before[b]

\* C9: a collision-start between body B and ground G inserts G into B's
\* CollidedGrounds, and a collision-stop removes an entry G from it,
\* whichever of the event's two positions holds B.
C9_EitherOrder ==
    (ran.op = "check_collided_grounds" /\ Len(ran.arg) = 1) =>
        LET ev == ran.arg[1]
        IN  \A b \in Tracked : \A g \in Ground :
                ContactOf(ev) = {<<b, g>>} =>
                    /\ ev.kind = "Started" =>
                          /\ position(cg[b], g) # 0
                          /\ Len(cg[b]) = Len(ran.before[b]) + 1
                    /\ (ev.kind = "Stopped" /\ position(ran.before[b], g) # 0) =>
                          Len(cg[b]) = Len(ran.before[b]) - 1

\* C10: immediately after gravity_control every body's gravity scale is 0.0
\* if its CollidedGrounds is non-empty and 30.0 if it is empty, whatever it
\* was before.
C10_GravityFollowsGrounded ==
    ran.op = "gravity_control" =>
        \A b \in Tracked :
            /\ Len(cg[b]) > 0 => gs[b] = 0
            /\ Len(cg[b]) = 0 => gs[b] = 30

C10_Witness ==
    /\ ran.op = "gravity_control"
    /\ cg[Player] = <<"ramp">>
    /\ ran.gsBefore[Player] = 30
    /\ gs[Player] = 0

----------------------------------------------------------------------------
(* Properties of calc_force_diff, under SpecForce *)

\* C13: calc_force_diff(clamped_input, current, target) returns
\* (target * clamped_input - current) * 300 per horizontal component: for
\* current = (0,0), target = (5,0), clamped_input = 1 the force is (1500,0),
\* and whenever current equals target * clamped_input the force is (0,0).
C13_ForceDiff ==
    forceOut # <<>> =>
        LET c == forceIn.clamped_input
            v == forceIn.current
            t == forceIn.target
            f == forceOut[1]
        IN  /\ f.x = (t.x * c - v.x) * 300
            /\ f.y = (t.y * c - v.y) * 300
            /\ (v = Vec2(0, 0) /\ t = Vec2(5, 0) /\ c = 1) => f = Vec2(1500, 0)
            /\ (v.x = t.x * c /\ v.y = t.y * c) => f = Vec2(0, 0)

C13_Witness ==
    /\ forceIn = [clamped_input |-> 1, current |-> Vec2(0, 0), target |-> Vec2(5, 0)]
    /\ forceOut = <<Vec2(1500, 0)>>

----------------------------------------------------------------------------
(* Properties of the frames, under SpecFrameMove and SpecFrameGround *)

\* C11: at the end of every frame, after the Update systems and the physics
\* step that moves the character, the camera position is the character's
\* position plus the offset of the camera distance.
C11_CameraFollows ==
    ran.op = "physics_step" =>
        cam = Add(pos, CameraOffset(PlayerCameraDistance))

\* C12: in every frame control_player has run before entities_try_to_move
\* and before camera_lock start, so the force of a frame is computed from
\* the move vector control_player wrote for the input of that frame.
C12_ControlFirst ==
    /\ "entities_try_to_move" \in done => "control_player" \in done
    /\ "camera_lock" \in done => "control_player" \in done
    /\ (stage = "Update" /\ "entities_try_to_move" \in done) =>
          xz(force) = calc_force_diff(1, xz(vel), xz(move_vec))
    /\ (stage = "Update" /\ "entities_try_to_move" \in done
          /\ "camera_lock" \notin done) =>
          move_vec = ControlledMove(action_state, pos, cam, PlayerMoveSpeed)

C12_Witness ==
    /\ stage = "Update"
    /\ done = {"control_player", "entities_try_to_move"}
    /\ action_state["Up"] = "JustPressed"
    /\ action_state["Left"] = "JustReleased"
    /\ vel # Vec3_ZERO
    /\ xz(force) # Vec2(0, 0)

\* C14: at the end of every frame each body's gravity scale is 0.0 exactly
\* when its CollidedGrounds, as updated by the events of that frame, is
\* non-empty, and 30.0 otherwise.
C14_GravityNotStale ==
    done = GroundSystems =>
        \A b \in Tracked : gs[b] = IF cg[b] # <<>> THEN 0 ELSE 30

\* the sum of the contributions of the actions still held
HeldOnly(as, forward, right) ==
    LET h(a, v) == IF as[a] \in {"JustPressed", "Pressed"} THEN v ELSE Vec3_ZERO
    IN  Add(Add(h("Up", forward), h("Down", Sub(Vec3_ZERO, forward))),
            Add(h("Right", right), h("Left", Sub(Vec3_ZERO, right))))

\* C15: the move vector control_player writes is the normalized sum of the
\* contributions of the actions still held, scaled by the move speed: a
\* released action contributes nothing, in its own direction or the
\* opposite one, and with no action held the vector is zero.
C15_OnlyHeldActions ==
    ran.op = "control_player" =>
        LET forward == Forward(pos, cam)
            right   == cross_Y(forward)
        IN  /\ move_vec = Scaled(normalize_or_zero(
                              HeldOnly(action_state, forward, right)),
                              PlayerMoveSpeed)
            /\ (\A a \in Action : ~pressed(action_state, a)) =>
                  move_vec = Vec3_ZERO

C15_Witness ==
    /\ ran.op = "control_player"
    /\ action_state["Right"] = "JustReleased"
    /\ action_state["Up"] = "Pressed"
    /\ action_state["Left"] = "Released"
    /\ action_state["Down"] = "Released"
    /\ move_vec = Scaled(Forward(pos, cam), PlayerMoveSpeed)
    /\ move_vec # Vec3_ZERO

\* C16: entities_try_to_move changes only the x and z components of the
\* external force: the y component, the velocity and the move vector are as
\* they were before the call.
C16_OnlyHorizontalForce ==
    ran.op = "entities_try_to_move" =>
        /\ force.y = ran.force.y
        /\ vel = ran.vel
        /\ move_vec = ran.move_vec

C16_Witness ==
    /\ ran.op = "entities_try_to_move"
    /\ ran.force.y = 7
    /\ force.y = 7
    /\ force.x # ran.force.x
    /\ force.z # ran.force.z

====
